---- MODULE Spec2Model ----
(***************************************************************************)
(* QueryOrder (src/src/index.ts): an ordered queue of query functions.     *)
(* add() appends queries, first evicting not-pending ones when the         *)
(* configured max would be exceeded; start() claims the head query, runs   *)
(* it, and on settlement shifts the queue, optionally schedules a          *)
(* setTimeout(0) and calls start() again.                                  *)
(*                                                                         *)
(* One step of the model is one synchronous run of JavaScript: a call of   *)
(* add(), a call of start(), the finally-callback of a settled query, or   *)
(* the firing of a timer.                                                  *)
(***************************************************************************)
EXTENDS Integers, Sequences, FiniteSets, TLC

\* ---------------------------------------------------------------- bounds
\* Total number of queries ever passed to add().
MaxItems == 3
\* Largest number of queries passed to one add() call.
MaxAdd == 2
\* Largest finite value of config.max.
MaxCap == 2

\* config.max defaults to Infinity: a value no queue length ever reaches.
Infinity == 1000000

VARIABLES
    config,      \* this._config: [max, shouldYieldAfterEach]
    queries,     \* this._queries: sequence of [id, shouldYieldAfter, isPending]
    nextId,      \* identity given to the next query function passed to add()
    inflight,    \* queries whose func was invoked and has not settled yet
    invoked,     \* ids of the queries whose func was invoked, in order
    promises,    \* one record per start() call that claimed a head
    timers,      \* ids of the queries whose setTimeout(resolve, 0) is pending
    yielded,     \* ids of the queries after which yieldToMainThread() ran
    drainAdds,   \* TRUE once add() was called while a query was in flight
    overrides,   \* TRUE once a query with its own shouldYieldAfter was added
    evicted,     \* ids of the queries that add() removed from the queue
    drainAdded,  \* ids of the queries added while the head was pending
    reAdded,     \* ids of the queries added to a queue that a drain had emptied
    last         \* what the latest step did

vars == <<config, queries, nextId, inflight, invoked, promises, timers,
          yielded, drainAdds, overrides, evicted, drainAdded, reAdded, last>>

\* shouldYieldAfter?: boolean -- an optional field.
OptBool == {"undefined", "true", "false"}

Min(a, b) == IF a < b THEN a ELSE b
Max(a, b) == IF a > b THEN a ELSE b

Ids(qs) == [i \in 1..Len(qs) |-> qs[i].id]

IdSet(qs) == {qs[i].id : i \in 1..Len(qs)}

\* ------------------------------------------------------- array primitives
\* Array.prototype.findIndex with the predicate (query) => !query.isPending:
\* the 0-based index of the first match, -1 when there is none.
RECURSIVE FindFrom(_, _)
FindFrom(qs, i) ==
    IF i >= Len(qs) THEN -1
    ELSE IF ~qs[i + 1].isPending THEN i
    ELSE FindFrom(qs, i + 1)

FindIndex(qs) == FindFrom(qs, 0)

\* Array.prototype.splice(start, deleteCount): a negative start counts from
\* the end of the array.
Splice(qs, start, deleteCount) ==
    LET len == Len(qs)
        from == IF start < 0 THEN Max(len + start, 0) ELSE Min(start, len)
        del == Min(Max(deleteCount, 0), len - from)
    IN SubSeq(qs, 1, from) \o SubSeq(qs, from + del + 1, len)

\* A finally callback that forgets the shift().
ShiftNothing(qs) == qs

\* Array.prototype.shift(): drops the first element, if any.
Shift(qs) == IF Len(qs) = 0 THEN qs ELSE Tail(qs)

\* --------------------------------------------- _removeFirstInactiveQueries
RemoveOne(qs) == Splice(qs, FindIndex(qs), 1)

RECURSIVE RemoveFirstInactiveQueries(_, _)
RemoveFirstInactiveQueries(qs, count) ==
    IF count <= 0 THEN qs
    ELSE RemoveFirstInactiveQueries(RemoveOne(qs), count - 1)

\* ------------------------------------------------------------------- add
Exceeds(size, added, max) == size + added > max

Evicted(qs, added, max) ==
    IF Exceeds(Len(qs), added, max)
    THEN RemoveFirstInactiveQueries(qs, Len(qs) + added - max)
    ELSE qs

\* New entries created with isPending: true.
OrderedPending(items) ==
    [i \in 1..Len(items) |->
        [id |-> items[i].id, shouldYieldAfter |-> items[i].shouldYieldAfter,
         isPending |-> TRUE]]

Ordered(items) ==
    [i \in 1..Len(items) |->
        [id |-> items[i].id, shouldYieldAfter |-> items[i].shouldYieldAfter,
         isPending |-> FALSE]]

\* unshift in place of push: the new entries go to the front.
AddQueriesFront(qs, items, max) ==
    Ordered(items) \o Evicted(qs, Len(items), max)

AddQueries(qs, items, max) == Evicted(qs, Len(items), max) \o Ordered(items)

\* ----------------------------------------------------------------- start
\* A start() without the isPending guard: it claims any head.
CanStartAnyHead(qs) == Len(qs) > 0

\* query !== undefined && !query.isPending
CanStart(qs) == Len(qs) > 0 /\ ~qs[1].isPending

Claim(qs) == [qs EXCEPT ![1].isPending = TRUE]

\* The early return with < in place of <=: it is never taken.
DrainedBelowZero(qs) == Len(qs) < 0

\* if (this._queries.length <= 0) return;
Drained(qs) == Len(qs) <= 0

\* || in place of ??: an item's false no longer overrides a true default.
ShouldYieldOr(own, each) == own = "true" \/ (own # "true" /\ each)

\* query.shouldYieldAfter ?? this._config.shouldYieldAfterEach
ShouldYield(own, each) == IF own # "undefined" THEN own = "true" ELSE each

\* A finally() whose callback does not return the inner start(): the inner
\* chain's rejection is lost.
AwaitFinallyOwnOnly(p, cb) == p

\* The settlement of `await p.finally(cb)`: the callback's rejection wins,
\* otherwise the settlement of p passes through.
AwaitFinally(p, cb) == IF cb = "rejected" THEN "rejected" ELSE p

\* The settlement of the outermost start() of a chain whose queries settled
\* as `frames` (outermost first), the innermost callback returning `inner`.
RECURSIVE Unwind(_, _)
Unwind(frames, inner) ==
    IF Len(frames) = 0 THEN inner
    ELSE Unwind(SubSeq(frames, 1, Len(frames) - 1),
                AwaitFinally(frames[Len(frames)], inner))

NoStep ==
    [op |-> "none", id |-> 0, outcome |-> "none", removed |-> 0, left |-> 0,
     next |-> 0, head |-> 0, headPending |-> FALSE,
     n |-> 0, promise |-> "none", own |-> "none"]

Init ==
    /\ config \in [max : (1..MaxCap) \cup {Infinity},
                   shouldYieldAfterEach : BOOLEAN]
    /\ queries = <<>>
    /\ nextId = 1
    /\ inflight = {}
    /\ invoked = <<>>
    /\ promises = <<>>
    /\ timers = {}
    /\ yielded = {}
    /\ drainAdds = FALSE
    /\ overrides = FALSE
    /\ evicted = {}
    /\ drainAdded = {}
    /\ reAdded = {}
    /\ last = NoStep

\* The query functions passed to one add() call: fresh identities, each with
\* its own optional shouldYieldAfter.
Batches ==
    UNION {[1..n -> OptBool] : n \in 1..MaxAdd}

Items(batch) ==
    [i \in 1..Len(batch) |->
        [id |-> nextId + i - 1, shouldYieldAfter |-> batch[i]]]

\* What a query function can do when it is invoked.
Behaviours == {"returns", "throws", "rejects"}

\* ensurePromise(func): new Promise((resolve) => resolve(func())). A value
\* or a promise that fulfills gives a fulfilled promise; a synchronous throw
\* inside the executor and a returned promise that rejects both give a
\* rejected one.
EnsurePromise(behaviour) ==
    IF behaviour = "returns" THEN "fulfilled" ELSE "rejected"

\* The query captured by the closure of one start() call: `after` is the
\* query whose finally-callback made the call, 0 for a call from outside.
Invocation(query, chain, after) ==
    [id |-> query.id, shouldYieldAfter |-> query.shouldYieldAfter,
     chain |-> chain, after |-> after]

\* add(...queries)
Add(batch) ==
    /\ nextId + Len(batch) - 1 <= MaxItems
    /\ queries' = AddQueries(queries, Items(batch), config.max)
    /\ nextId' = nextId + Len(batch)
    /\ drainAdds' = (drainAdds \/ inflight # {})
    /\ overrides' = (overrides \/ \E i \in 1..Len(batch) : batch[i] # "undefined")
    /\ evicted' = evicted \cup
          (IdSet(queries) \ IdSet(Evicted(queries, Len(batch), config.max)))
    /\ drainAdded' = IF Len(queries) > 0 /\ queries[1].isPending
                      THEN drainAdded \cup IdSet(Items(batch))
                      ELSE drainAdded
    /\ reAdded' = IF Len(queries) = 0 /\ Len(invoked) > 0
                   THEN reAdded \cup IdSet(Items(batch))
                   ELSE reAdded
    /\ last' = [NoStep EXCEPT !.op = "add", !.n = Len(batch),
                  !.left = Len(queries),
                  !.head = IF Len(queries) > 0 THEN queries[1].id ELSE 0,
                  !.headPending = (Len(queries) > 0 /\ queries[1].isPending)]
    /\ UNCHANGED <<config, inflight, invoked, promises, timers, yielded>>

\* start(), called from outside the queue.
Start ==
    IF CanStart(queries)
    THEN
        /\ queries' = Claim(queries)
        /\ inflight' = inflight \cup
              {Invocation(queries[1], Len(promises) + 1, 0)}
        /\ invoked' = Append(invoked, queries[1].id)
        /\ promises' = Append(promises,
              [state |-> "pending", frames |-> <<>>, observed |-> Ids(queries)])
        /\ last' = [NoStep EXCEPT !.op = "start", !.next = queries[1].id,
                      !.promise = "pending"]
        /\ UNCHANGED <<config, nextId, timers, yielded, drainAdds, overrides,
                       evicted, drainAdded, reAdded>>
    ELSE
        /\ last' = [NoStep EXCEPT !.op = "start", !.promise = "fulfilled",
                      !.head = IF Len(queries) > 0 THEN queries[1].id ELSE 0,
                      !.headPending = (Len(queries) > 0)]
        /\ UNCHANGED <<config, queries, nextId, inflight, invoked, promises,
                       timers, yielded, drainAdds, overrides, evicted,
                       drainAdded, reAdded>>

\* The promise of query r settles and the callback given to finally() runs:
\* shift, return on an empty queue, else the optional yieldToMainThread()
\* followed by `return this.start()`.
Settle(r, behaviour) ==
    LET outcome == EnsurePromise(behaviour)
        rest == Shift(queries)
        removed == IF Len(queries) > 0 THEN queries[1].id ELSE 0
        frames == Append(promises[r.chain].frames, outcome)
        willYield == ~Drained(rest) /\
            ShouldYield(r.shouldYieldAfter, config.shouldYieldAfterEach)
        step == [NoStep EXCEPT !.op = "settle", !.id = r.id,
                   !.outcome = behaviour, !.removed = removed,
                   !.left = Len(rest),
                   !.own = r.shouldYieldAfter]
    IN
    /\ timers' = IF willYield THEN timers \cup {r.id} ELSE timers
    /\ yielded' = IF willYield THEN yielded \cup {r.id} ELSE yielded
    /\ IF ~Drained(rest) /\ CanStart(rest)
       THEN
           /\ queries' = Claim(rest)
           /\ inflight' = (inflight \ {r}) \cup
                 {Invocation(rest[1], r.chain, r.id)}
           /\ invoked' = Append(invoked, rest[1].id)
           /\ promises' = [promises EXCEPT ![r.chain].frames = frames]
           /\ last' = [step EXCEPT !.next = rest[1].id, !.promise = "pending"]
       ELSE
           /\ queries' = rest
           /\ inflight' = inflight \ {r}
           /\ invoked' = invoked
           /\ promises' = [promises EXCEPT ![r.chain].frames = frames,
                 ![r.chain].state = Unwind(frames, "fulfilled")]
           /\ last' = [step EXCEPT !.promise = Unwind(frames, "fulfilled")]
    /\ UNCHANGED <<config, nextId, drainAdds, overrides, evicted, drainAdded,
                   reAdded>>

\* The macrotask scheduled by yieldToMainThread() runs.
TimerFires(id) ==
    /\ id \in timers
    /\ timers' = timers \ {id}
    /\ last' = [NoStep EXCEPT !.op = "timer", !.id = id]
    /\ UNCHANGED <<config, queries, nextId, inflight, invoked, promises,
                   yielded, drainAdds, overrides, evicted, drainAdded,
                   reAdded>>

Next ==
    \/ \E batch \in Batches : Add(batch)
    \/ Start
    \/ \E r \in inflight : \E behaviour \in Behaviours :
          Settle(r, behaviour)
    \/ \E id \in timers : TimerFires(id)

Spec == Init /\ [][Next]_vars

\* Every invoked query function eventually settles, and the callback given
\* to finally() then runs.
SettleSome ==
    \E r \in inflight : \E behaviour \in Behaviours : Settle(r, behaviour)

\* Batches of queries without a shouldYieldAfter of their own. The field is
\* read only to decide whether a timer is scheduled, which no guard and no
\* update of the queue depends on; yields still occur through
\* config.shouldYieldAfterEach.
PlainBatches ==
    UNION {[1..n -> {"undefined"}] : n \in 1..MaxAdd}

FairNext ==
    \/ \E batch \in PlainBatches : Add(batch)
    \/ Start
    \/ SettleSome
    \/ \E id \in timers : TimerFires(id)

FairSpec == Init /\ [][FairNext]_vars /\ WF_vars(SettleSome)

\* ------------------------------------------------------------ properties
Unbounded == config.max = Infinity

Pending(qs) == {i \in 1..Len(qs) : qs[i].isPending}

Settled(c) == promises[c].state # "pending"

Failed(c) == \E i \in 1..Len(promises[c].frames) :
                promises[c].frames[i] = "rejected"

\* C1: with max unbounded the query functions are invoked in exactly the
\* order in which they were added (query 1, then 2, ...), and at most one
\* invoked query is unsettled at any time.
C1_FifoOneAtATime ==
    Unbounded =>
        /\ Cardinality(inflight) <= 1
        /\ invoked = [i \in 1..Len(invoked) |-> i]

\* C1 witness: an unbounded queue whose third query was invoked by the
\* drain, after an add() during the drain, and a start() call that found
\* the head pending.
C1_Witness ==
    /\ Unbounded
    /\ Len(invoked) = 3
    /\ drainAdds
    /\ inflight # {}
    /\ last.op = "start" /\ last.promise = "fulfilled" /\ last.headPending

\* C2: for every configuration, at every reachable state at most one
\* invoked query is unsettled.
C2_SingleFlight == Cardinality(inflight) <= 1

\* C3: after an add() called while the head query was pending, that same
\* pending query is still the entry at index 0.
C3_PendingHeadKept ==
    (last.op = "add" /\ last.headPending) =>
        /\ Len(queries) > 0
        /\ queries[1].id = last.head
        /\ queries[1].isPending

\* C4: with max = k and no query ever started, once k + m queries were
\* added (m >= 0), in one add() call or several, the queue holds exactly
\* the k most recently added queries in insertion order.
C4_KeepsNewest ==
    (~Unbounded /\ Len(invoked) = 0 /\ nextId - 1 >= config.max) =>
        Ids(queries) = [i \in 1..config.max |-> nextId - 1 - config.max + i]

\* C5: with finite max = k the queue never holds more than k + 1 entries,
\* and never more than k when no entry is pending.
C5_SizeBound ==
    ~Unbounded =>
        /\ Len(queries) <= config.max + 1
        /\ (Pending(queries) = {} => Len(queries) <= config.max)

\* C6: the promise returned by start() is never rejected, whatever the
\* invoked query functions do.
C6_NeverRejected ==
    /\ last.promise # "rejected"
    /\ \A c \in 1..Len(promises) : promises[c].state # "rejected"

\* C6 as amended: once the promise of a start() call that claimed a head has
\* settled, it is rejected exactly when a query function invoked by its
\* drain chain failed, whichever one, and fulfilled when none did.
C6_RejectedIffFailed ==
    \A c \in 1..Len(promises) :
        Settled(c) => (promises[c].state = "rejected" <=> Failed(c))

\* C6 witness: a drain whose first query succeeded and whose second query
\* threw has just ended, and the promise of its start() is rejected.
C6_Witness ==
    /\ last.op = "settle" /\ last.outcome = "throws"
    /\ \E c \in 1..Len(promises) :
          /\ promises[c].state = "rejected"
          /\ Len(promises[c].frames) = 2
          /\ promises[c].frames[1] = "fulfilled"

\* C7: when a query function fails, the entry removed is the failed query's
\* own entry (no other entry is dropped unexecuted) and the drain goes on:
\* if entries are left, the new head is invoked in the same step.
C7_FailureKeepsDraining ==
    (last.op = "settle" /\ last.outcome # "returns") =>
        /\ last.removed = last.id
        /\ (last.left > 0 => last.next # 0)

\* C8: no query is in flight whose invocation followed a query whose yield
\* (the setTimeout scheduled after it) has not fired yet.
C8_YieldSuspendsDrain == \A r \in inflight : r.after \notin timers

\* C9: with shouldYieldAfterEach = true and no shouldYieldAfter of its own,
\* a settled query is followed by a yield exactly when the shift left the
\* queue non-empty; a drain that started on 3 queries, none with an override
\* and with no add() during a drain, yields after the first and the second
\* and not after the third.
C9_YieldExceptLast ==
    config.shouldYieldAfterEach =>
        /\ (last.op = "settle" /\ last.own = "undefined") =>
              /\ (last.id \in yielded <=> last.left > 0)
              /\ (last.id \in timers <=> last.left > 0)
        /\ \A c \in 1..Len(promises) :
              (Settled(c) /\ ~drainAdds /\ ~overrides
                 /\ Len(promises[c].observed) = 3) =>
                 {i \in 1..3 : promises[c].observed[i] \in yielded} = {1, 2}

\* C9 witness: such a drain of 3 queries has just ended, the last settlement
\* leaving the queue empty.
C9_Witness ==
    /\ config.shouldYieldAfterEach /\ ~overrides /\ ~drainAdds
    /\ last.op = "settle" /\ last.left = 0 /\ last.id = 3
    /\ yielded = {1, 2}
    /\ \E c \in 1..Len(promises) :
          Settled(c) /\ Len(promises[c].observed) = 3

\* C10: after a settled query that leaves the queue non-empty, a yield is
\* scheduled exactly when the query's own shouldYieldAfter is true, or is
\* undefined with shouldYieldAfterEach true.
C10_OwnFieldDecides ==
    (last.op = "settle" /\ last.left > 0) =>
        (last.id \in yielded <=>
            CASE last.own = "true" -> TRUE
              [] last.own = "false" -> FALSE
              [] OTHER -> config.shouldYieldAfterEach)

\* C10 witness: a query with shouldYieldAfter = false settled under a true
\* default, the next query (just invoked) having shouldYieldAfter = true:
\* no yield was scheduled.
C10_Witness ==
    /\ last.op = "settle" /\ last.left > 0 /\ last.own = "false"
    /\ config.shouldYieldAfterEach
    /\ last.id \notin yielded
    /\ last.next # 0
    /\ queries[1].id = last.next /\ queries[1].shouldYieldAfter = "true"

InvokedSet == {invoked[i] : i \in 1..Len(invoked)}

\* The queries whose function was invoked and has settled.
Finished == InvokedSet \ {r.id : r \in inflight}

Increasing(seq) == \A i, j \in 1..Len(seq) : i < j => seq[i] < seq[j]

\* C11: once no query is in flight any more, every query that was added
\* while the head was pending and that add() did not evict has been invoked
\* (by the drain, in insertion order).
C11_AddedDuringDrainRuns ==
    inflight = {} =>
        /\ \A id \in drainAdded \ evicted : id \in InvokedSet
        /\ Increasing(invoked)

\* C12: the promise of a start() call that claimed a head is settled only
\* when every entry it found in the queue has finished or was evicted; the
\* queue is empty in the step in which a drain chain ends; a start() on an
\* empty queue returns a promise that is already fulfilled.
C12_SettlesAfterObserved ==
    /\ \A c \in 1..Len(promises) :
          Settled(c) =>
              \A i \in 1..Len(promises[c].observed) :
                  promises[c].observed[i] \in Finished \cup evicted
    /\ (last.op = "settle" /\ last.promise # "pending") => queries = <<>>
    /\ (last.op = "start" /\ last.next = 0 /\ last.head = 0) =>
          last.promise = "fulfilled"

\* C13: a queue that a drain has emptied is reusable. No pending flag is
\* left when nothing is in flight; a start() that claims a query added to
\* the emptied queue runs it alone, as in a first drain; and once the queue
\* is empty again with nothing in flight, every query added to the emptied
\* queue was invoked unless add() evicted it.
C13_Reusable ==
    /\ inflight = {} => Pending(queries) = {}
    /\ (last.op = "start" /\ last.next \in reAdded) =>
          {r.id : r \in inflight} = {last.next}
    /\ (inflight = {} /\ queries = <<>>) =>
          reAdded \ evicted \subseteq InvokedSet

\* C14: at most one entry of the queue has isPending = true, and such an
\* entry is the one at index 0.
C14_PendingOnlyAtHead == Pending(queries) \subseteq {1}

\* C14 witness: add() on a full bounded queue whose head is pending evicted
\* a later entry; the pending head is still first, followed by others.
C14_Witness ==
    /\ ~Unbounded
    /\ last.op = "add" /\ last.headPending
    /\ evicted # {}
    /\ Len(queries) >= 2
    /\ Pending(queries) = {1}

Added == 1..(nextId - 1)

\* C15: the shift() in the finally callback of a settled query removes that
\* query's own entry, and a query that is no longer in the queue was either
\* invoked or evicted by add().
C15_ShiftRemovesSettled ==
    /\ last.op = "settle" => last.removed = last.id
    /\ \A id \in Added \ IdSet(queries) : id \in InvokedSet \cup evicted

NotPending(qs) == {i \in 1..Len(qs) : ~qs[i].isPending}

\* The entries of qs left when the `count` oldest not-pending ones, or all
\* of them if there are fewer, are removed and nothing else is.
WithoutOldest(qs, count) ==
    LET drop == {i \in NotPending(qs) :
                    Cardinality({j \in NotPending(qs) : j <= i}) <= count}
        Keeps(e) == \A i \in drop : qs[i].id # e.id
    IN SelectSeq(qs, Keeps)

\* C16: an add() of n queries that makes the queue exceed max = k removes
\* the min(s + n - k, number of not-pending entries) oldest not-pending
\* entries and nothing else; the survivors keep their order and flags and
\* the n new entries, not pending, follow in the order given.
C16_EvictsOldestNotPending ==
    [][(nextId' > nextId /\ Len(queries) + (nextId' - nextId) > config.max) =>
          LET n == nextId' - nextId
              kept == WithoutOldest(queries, Len(queries) + n - config.max)
          IN /\ Len(queries') = Len(kept) + n
             /\ SubSeq(queries', 1, Len(kept)) = kept
             /\ \A i \in 1..n :
                   /\ queries'[Len(kept) + i].id = nextId + i - 1
                   /\ ~queries'[Len(kept) + i].isPending]_vars

\* C17: when every invoked query function eventually settles (only finitely
\* many queries are ever added), a start() call on a non-empty queue is
\* followed by a state in which the queue is empty and nothing is in
\* flight, for every max and every interleaving of add() and start().
C17_DrainTerminates ==
    (last.op = "start" /\ Len(queries) > 0) ~>
        (queries = <<>> /\ inflight = {})

\* C17 witness: a bounded queue, drained to the end after add() calls during
\* the drain.
C17_Witness ==
    /\ ~Unbounded
    /\ drainAdds
    /\ Len(invoked) >= 2
    /\ last.op = "settle"
    /\ queries = <<>> /\ inflight = {}

\* C18: no query function is invoked twice, and an entry of the queue has
\* isPending = true exactly when its function was invoked: the flag is set
\* together with the invocation and never reset.
C18_InvokedOnce ==
    /\ \A i, j \in 1..Len(invoked) : invoked[i] = invoked[j] => i = j
    /\ \A i \in 1..Len(queries) :
          queries[i].isPending <=> queries[i].id \in InvokedSet

\* C18 witness: a bounded queue on which three queries were invoked, two of
\* them in flight at once after repeated start() calls.
C18_Witness ==
    /\ ~Unbounded
    /\ Len(invoked) = 3
    /\ Cardinality(inflight) >= 2
    /\ Len(promises) >= 2

\* C19: add() invokes nothing and leaves every surviving entry as it was,
\* the new entries being not pending; while nothing is in flight only a
\* start() call invokes a query; a start() that finds the queue empty or
\* its head pending changes neither the queue nor what is in flight.
C19_AddAndNoopStartFrame ==
    [][/\ nextId' > nextId =>
            /\ invoked' = invoked
            /\ inflight' = inflight
            /\ \A i \in 1..Len(queries') :
                  \/ \E j \in 1..Len(queries) : queries'[i] = queries[j]
                  \/ queries'[i].id >= nextId /\ ~queries'[i].isPending
       /\ (inflight = {} /\ invoked' # invoked) => last'.op = "start"
       /\ (last'.op = "start" /\ (Len(queries) = 0 \/ queries[1].isPending)) =>
            /\ queries' = queries
            /\ invoked' = invoked
            /\ inflight' = inflight]_vars

\* C19 witness: a start() call has just found the head pending, on a queue
\* that holds queries added during the drain behind that head.
C19_Witness ==
    /\ last.op = "start" /\ last.promise = "fulfilled" /\ last.headPending
    /\ drainAdds
    /\ Len(queries) >= 2
    /\ Pending(queries) = {1}
====
